---- MODULE Spec2Model ----
(***************************************************************************)
(* Model of the account-automation engine of src/server/routes.ts:         *)
(* WorkerPool, AccountAutomationService (task state machine, retry loop,   *)
(* signup attempt, email verification, persistence).                       *)
(*                                                                         *)
(* JavaScript runs every handler to its next `await` without interleaving, *)
(* so one action is the code between two suspension points of one async    *)
(* activity.  The environment (browser, provider page, mailbox, database)  *)
(* is a nondeterministic choice of what each awaited operation yields.     *)
(***************************************************************************)
EXTENDS Integers, Sequences, FiniteSets, TLC

\* ------------------------------------------------------------------------
\* Program constants
MAX_RETRIES == 3
MAX_WORKERS == 3

\* Bounds of the model
NumCallers == 4
NumFleet == 4
MaxDebugCalls == 1
MaxFaults == 2
MaxLiveFaults == 1

Callers == 1..NumCallers

\* the only task of the single-task specifications (tasks share nothing but
\* debugMode, which SetDebugMode changes freely, and the WorkerPool, which
\* createReplitAccount never uses)
SoloIds == {1}
TaskIds == 1..NumFleet

VARIABLES
  activeWorkers,   \* WorkerPool.activeWorkers
  queue,           \* WorkerPool.queue (never pushed to by the code)
  callers,         \* position of every WorkerPool.execute call
  slotTask,        \* per execute call of createMultipleAccounts: the task it created
  tasks,           \* AccountAutomationService.tasks: id -> AutomationTask
  run,             \* per task: the suspended runAutomation/attemptSignup/
                   \* verifyEmail activation (await point, locals, handles)
  updateCallbacks, \* AccountAutomationService.updateCallbacks
  debugMode,       \* AccountAutomationService.debugMode
  captchaSolver,   \* AccountAutomationService.captchaSolver is non-null
  db,              \* per task: the inserts sent to replit_accounts
  cookieFiles,     \* per task: number of writes of COOKIES_DIR/<id>.json
  debugCalls,      \* number of setDebugMode calls made so far
  faultBudget,     \* how many operations or callbacks of a task the environment lets throw
  randoms,         \* the values Math.random() may return, in RandomScale-ths
  activeValidations, \* PlaywrightService.activeValidations
  validators,      \* position of every validateLinksInMessage / validateLink call
  linkValidations, \* per inboxId: rows of the table link_validations
  opened,          \* per inboxId: times page.goto was given the message's link
  clock            \* Date.now(), counted from the first task's creation

poolVars == <<activeWorkers, queue, callers, slotTask>>
taskVars == <<tasks, run, db, cookieFiles>>
linkVars == <<activeValidations, validators, linkValidations, opened>>
svcVars == <<updateCallbacks, debugMode, captchaSolver, debugCalls, faultBudget, randoms, linkVars>>
vars == <<activeWorkers, queue, callers, slotTask, tasks, run, updateCallbacks,
          debugMode, captchaSolver, db, cookieFiles, debugCalls, faultBudget, randoms, clock,
          activeValidations, validators, linkValidations, opened>>

\* ------------------------------------------------------------------------
\* WorkerPool

\* constructor(maxWorkers): the service builds the pool with MAX_WORKERS
maxWorkers == MAX_WORKERS

PoolFullOffByOne(active) == active > maxWorkers

\* the loop condition of execute
PoolFull(active) == active >= maxWorkers

\* processQueue(): shifts and runs a queued task when there is one and a
\* permit is free; yields the queue it leaves
processQueue(q, active) ==
  IF Len(q) > 0 /\ active < maxWorkers THEN Tail(q) ELSE q

\* getActiveCount()
getActiveCount == activeWorkers

\* the synchronous head of execute, and its resumption after the 1000 ms
\* timer: test the loop condition, then either suspend on a new timer or
\* take the permit and call task()
PoolEnter(c) ==
  IF PoolFull(activeWorkers)
    THEN /\ callers' = [callers EXCEPT ![c] = "polling"]
         /\ UNCHANGED activeWorkers
    ELSE /\ activeWorkers' = activeWorkers + 1
         /\ callers' = [callers EXCEPT ![c] = "running"]

PoolLeaveKeepsPermit ==
  /\ activeWorkers' = activeWorkers
  /\ queue' = processQueue(queue, activeWorkers)

\* the finally block of execute
PoolLeave ==
  /\ activeWorkers' = activeWorkers - 1
  /\ queue' = processQueue(queue, activeWorkers - 1)

\* a caller invokes execute(task)
Execute(c) ==
  /\ callers[c] = "idle"
  /\ PoolEnter(c)
  /\ UNCHANGED <<queue, slotTask, taskVars, svcVars, clock>>

\* the polling timer of a waiting caller fires
PollWake(c) ==
  /\ callers[c] = "polling"
  /\ PoolEnter(c)
  /\ UNCHANGED <<queue, slotTask, taskVars, svcVars, clock>>

\* the supplied function settles: it returns (ok) or throws
TaskSettles(c, ok) ==
  /\ callers[c] = "running"
  /\ PoolLeave
  /\ callers' = [callers EXCEPT ![c] = IF ok THEN "returned" ELSE "threw"]
  /\ UNCHANGED <<slotTask, taskVars, svcVars, clock>>

\* the promise of an execute call has settled and its caller is about to call
\* execute again: calls keep arriving
Arrives(c) ==
  /\ callers[c] \in {"returned", "threw"}
  /\ callers' = [callers EXCEPT ![c] = "idle"]
  /\ UNCHANGED <<activeWorkers, queue, slotTask, taskVars, svcVars, clock>>

\* ------------------------------------------------------------------------
\* AutomationTask and its mutators

\* a line of logs or debugLogs: its fixed text and the number it interpolates
Line(text) == [text |-> text, n |-> 0]
NLine(text, k) == [text |-> text, n |-> k]

\* the optional `log` argument of updateStep left out
NoLog == Line("")

NoTask == [status |-> "absent"]
Undefined == 0

\* the task literal of createReplitAccount
NewTask(taskId, now) ==
  [ id |-> taskId,
    provider |-> "replit",
    email |-> taskId,
    password |-> taskId,
    status |-> "pending",
    steps |-> << [id |-> "load", label |-> "Chargement de la page", status |-> "pending"],
                 [id |-> "form", label |-> "Saisie email et mot de passe", status |-> "pending"],
                 [id |-> "submit", label |-> "Creation du compte", status |-> "pending"],
                 [id |-> "redirect", label |-> "Redirection reussie", status |-> "pending"],
                 [id |-> "email_verify", label |-> "Validation de l'email", status |-> "pending"] >>,
    logs |-> <<>>,
    debugLogs |-> <<>>,
    screenshots |-> <<>>,
    errorMessages |-> <<>>,
    createdAt |-> now,
    completedAt |-> Undefined,
    completedAtWrites |-> 0,    \* how many times completedAt was assigned
    unnotified |-> FALSE ]      \* a call changed steps or logs and returned
                                \* without invoking the callbacks registered

\* task.steps.find(s => s.id === stepId): the first index that matches, or 0
FindStep(steps, stepId) ==
  LET hits == {i \in DOMAIN steps : steps[i].id = stepId}
  IN  IF hits = {} THEN 0 ELSE CHOOSE i \in hits : \A j \in hits : i <= j

updateStepDropsOthers(t, stepId, status, log) ==
  [t EXCEPT !.steps = SelectSeq(@, LAMBDA s : s.id = stepId)]

\* updateStep(task, stepId, status, log?)
updateStep(t, stepId, status, log) ==
  LET after ==
        { LET i == FindStep(t0.steps, stepId)
              changed == (i # 0 /\ t0.steps[i].status # status) \/ log # NoLog
          IN  [t0 EXCEPT !.steps = IF i = 0 THEN @ ELSE [@ EXCEPT ![i].status = status],
                         !.logs = IF log = NoLog THEN @ ELSE Append(@, log),
                         !.unnotified = @ \/ (changed /\ updateCallbacks[t0.id] # <<>>)]
          : t0 \in {t} }
  IN  CHOOSE u \in after : TRUE

\* addLog without its notifyUpdate (the callers below deliver it)
pushLog(t, log) == [t EXCEPT !.logs = Append(@, log)]

\* addDebugLog(task, log)
addDebugLog(t, log) ==
  IF debugMode THEN [t EXCEPT !.debugLogs = Append(@, log)] ELSE t

RECURSIVE addDebugLogs(_, _)
addDebugLogs(t, ls) ==
  IF ls = <<>> THEN t ELSE addDebugLogs(addDebugLog(t, Head(ls)), Tail(ls))

\* the debugLogs filter of the retry reset: the lines whose text contains one
\* of its six substrings
Whitelisted(log) ==
  log.text \in { "Demarrage de l'automatisation Replit", "Email: <email>",
                 "Initialisation...", "Demarrage de l'automatisation...",
                 "Tentative k/MAX_RETRIES", "Pause de Ns...",
                 "Tentative k/MAX_RETRIES avec nouveau contexte propre" }

\* task.completedAt = Date.now(): every assignment yields a later stamp
StampCompleted(t) ==
  [t EXCEPT !.completedAt = t.completedAtWrites + 1,
            !.completedAtWrites = @ + 1]

Terminal(t) == t.status \in {"completed", "failed"}

CallbackKeyShared(id) == 1

\* the key notifyUpdate looks the callbacks up under: task.id
CallbackKey(id) == id

\* the subscribers of a task
Callbacks(id) == updateCallbacks[CallbackKey(id)]

\* notifyUpdate(task), as its caller sees it: it returns, or a callback
\* throws out of forEach.  The callbacks wired in this repository (the bot's
\* async function, the wrapper of createMultipleAccounts) never throw
\* synchronously: they are "quiet".
NotifyThrows(id) ==
  IF \E i \in DOMAIN Callbacks(id) : Callbacks(id)[i] = "throwing"
    THEN BOOLEAN ELSE {FALSE}

\* ------------------------------------------------------------------------
\* Control flow of one task.  A flow operator takes the task t and its
\* activation r, runs the synchronous code up to the next await, and yields
\* the pair it leaves.  th lists, for the notifyUpdate calls met on the way,
\* whether a callback throws.

\* ---- the mailbox read by verifyEmail ----
\* an address or a content is a sequence of words; a message of the list
\* carries fromAddress, getMessageDetails gives null (details FALSE) or the
\* message with htmlContent and textContent
MaxMessages == 2

UndefinedAddress == <<"undefined">>
VerifyWord == "https://replit.com/verify?token=t"

Message(from, details, html, text) ==
  [fromAddress |-> from, details |-> details, htmlContent |-> html, textContent |-> text]

Messages ==
  { Message(<<"no-reply@", "replit", ".com">>, TRUE, <<"Confirm:", VerifyWord>>, <<>>),
    Message(<<"no-reply@", "replit", ".com">>, TRUE, <<>>, <<VerifyWord>>),
    Message(<<"no-reply@", "replit", ".com">>, TRUE, <<"Welcome">>, <<VerifyWord>>),
    Message(<<"no-reply@", "replit", ".com">>, TRUE, <<"https://replit.com/login">>, <<>>),
    Message(<<"no-reply@", "replit", ".com">>, FALSE, <<VerifyWord>>, <<>>),
    Message(<<"news@", "example", ".org">>, TRUE, <<VerifyWord>>, <<>>),
    Message(UndefinedAddress, TRUE, <<VerifyWord>>, <<>>) }

Mailboxes == UNION { [1..n -> Messages] : n \in 0..MaxMessages }

\* String.prototype.includes over words
includes(from, word) == \E i \in DOMAIN from : from[i] = word

fromAnySender(msg) == TRUE

\* the test of the scan: msg.fromAddress.includes('replit')
fromProvider(msg) == includes(msg.fromAddress, "replit")

\* /https:\/\/replit\.com\/verify[^\s"<>]*/ applied to one word
VerifyShaped(word) == word \in {VerifyWord, "https://replit.com/verify"}

\* content.match(...): the first word of the content of that shape, or <<>>
linkMatch(content) ==
  LET hits == {i \in DOMAIN content : VerifyShaped(content[i])}
  IN  IF hits = {} THEN <<>>
      ELSE <<content[CHOOSE i \in hits : \A j \in hits : i <= j]>>

NoLink == [fromAddress |-> <<>>, link |-> <<>>]
ScanResult(result, from, link) == [result |-> result, link |-> [fromAddress |-> from, link |-> link]]

\* the for loop over the messages of one poll, from message i on
RECURSIVE scan(_, _)
scan(messages, i) ==
  IF i > Len(messages) THEN ScanResult("none", <<>>, <<>>)
  ELSE LET msg == messages[i]
       IN  IF msg.fromAddress = UndefinedAddress THEN ScanResult("throws", <<>>, <<>>)
           ELSE IF ~fromProvider(msg) THEN scan(messages, i + 1)
           ELSE IF ~msg.details THEN scan(messages, i + 1)
           ELSE LET content == IF msg.htmlContent # <<>> THEN msg.htmlContent ELSE msg.textContent
                    m == linkMatch(content)
                IN  IF m # <<>> THEN ScanResult("link", msg.fromAddress, m)
                    ELSE scan(messages, i + 1)

AllScans == { scan(messages, 1) : messages \in Mailboxes }

\* what the scan of one poll gives over the mailboxes with the given results
Scans(results) == { o \in AllScans : o.result \in results }

NoRun ==
  [ pc |-> "none",        \* the await the activation is suspended at
    attempt |-> 0,        \* runAutomation's loop variable
    polls |-> 0,          \* verifyEmail's attempts (0 again once the loop is left)
    vpath |-> "none",     \* verifyEmail: in its try block or its catch block
    verified |-> FALSE,   \* the flag of the saveAccountToDatabase call pending
    via |-> "none",       \* the branch of this attempt that called verifyEmail
    outcome |-> "none",   \* how email verification has ended in this attempt
    saves |-> 0,          \* saveAccountToDatabase calls made in this attempt
    browser |-> "null", context |-> "null", page |-> "null",
    interval |-> FALSE,   \* notifyInterval is set and not cleared
    timing |-> {},        \* values of debugMode the attempt's delays have read
    returns |-> <<>>,     \* what the attemptSignup calls so far returned
    seenTerminal |-> 0,   \* notifications delivered with a terminal status
    fatal |-> FALSE,      \* the catch of createReplitAccount has run
    faults |-> 0,         \* awaited operations that have thrown so far
    threw |-> FALSE,      \* an exception has been thrown in this attempt
    seen |-> {},          \* the page the classification is deciding on
    softs |-> 0,          \* attempts whose page had a soft-error and no captcha marker
    solves |-> 0,         \* solveCaptcha calls of this attempt
    solved |-> "none",    \* how the captcha of this attempt's page was dealt with
    resubmits |-> 0,      \* clicks on the create button after a token, this attempt
    crossed |-> {},       \* other task ids whose callbacks were invoked with this task
    fingerprints |-> <<>>, \* <<profile, viewport>> indices drawn by the attempts so far
    waited |-> 0,         \* ms of timers awaited since the last attempt returned false
    jar |-> "none",       \* cookies of the attempt's context: none yet, empty, or stored
    link |-> NoLink ]     \* sender and link of the message a poll of this attempt matched

Pair(t, r) == [t |-> t, r |-> r]

\* whether a callback throws out of the notifyUpdate call just made (a throw
\* counts against the fault budget of the environment)
Th(th, r) == th # <<>> /\ Head(th) /\ r.faults < faultBudget
Thrown(r) == [r EXCEPT !.faults = @ + 1, !.threw = TRUE]
Rest(th) == IF th = <<>> THEN <<>> ELSE Tail(th)

\* notifyUpdate(task): what the subscribers of the task have been shown
Notify(t, r) ==
  IF Callbacks(t.id) = <<>> THEN r
  ELSE [r EXCEPT !.seenTerminal = IF Terminal(t) THEN @ + 1 ELSE @,
                 !.crossed = IF CallbackKey(t.id) = t.id THEN @ ELSE @ \cup {CallbackKey(t.id)}]

\* an exception leaves runAutomation: its finally block clears the interval
\* and its promise rejects
Reject(t, r) ==
  Pair(t, [r EXCEPT !.pc = "rejected", !.interval = FALSE, !.seen = {}])

FatalHandlerKeepsStatus(t, r) ==
  Pair(t, [r EXCEPT !.pc = "done", !.fatal = TRUE])

\* runAutomation(taskId).catch(error => ...) of createReplitAccount (an
\* exception of its own notifyUpdate is an unhandled rejection: nothing
\* catches it and no state changes)
FatalHandler(t, r) ==
  LET t1 == StampCompleted([t EXCEPT !.status = "failed",
                                     !.errorMessages = Append(@, Line("Erreur fatale: <message>"))])
  IN  Pair(t1, Notify(t1, [r EXCEPT !.pc = "done", !.fatal = TRUE]))

LoopContinuesOneMore(attempt) == attempt + 1 <= MAX_RETRIES + 1

\* the loop test of runAutomation after attempt++
LoopContinues(attempt) == attempt + 1 <= MAX_RETRIES

\* steps.forEach(step => { if (step.status === 'failed') step.status = 'pending' })
ResetFailedSteps(steps) ==
  [i \in DOMAIN steps |->
     IF steps[i].status = "failed" THEN [steps[i] EXCEPT !.status = "pending"]
                                   ELSE steps[i]]

\* runAutomation from the return of attemptSignup to its next await or end
Settled(t, r, success, th) ==
  LET r0 == [r EXCEPT !.returns = Append(@, success), !.seen = {}]
  IN
  IF success THEN
    LET t1 == StampCompleted([t EXCEPT !.status = "completed"])
        r1 == Notify(t1, r0)
    IN  IF Th(th, r1) THEN Reject(t1, Thrown(r1))
        ELSE Pair(t1, [r1 EXCEPT !.pc = "done", !.interval = FALSE])
  ELSE IF LoopContinues(r.attempt) THEN
    LET k  == r.attempt + 1
        t1 == addDebugLog(t, NLine("Tentative k/MAX_RETRIES", k))
        t2 == [t1 EXCEPT !.steps = ResetFailedSteps(@)]
        t3 == addDebugLog(t2, Line("Pause de Ns..."))
        r1 == Notify(t3, [r0 EXCEPT !.attempt = k, !.waited = 0])
    IN  IF Th(th, r1) THEN Reject(t3, Thrown(r1))
        ELSE Pair(t3, [r1 EXCEPT !.pc = "backoff"])
  ELSE
    LET t1 == StampCompleted([t EXCEPT !.status = "failed"])
        t2 == addDebugLog(t1, Line("Echec definitif apres MAX_RETRIES tentatives"))
        r1 == Notify(t2, r0)
    IN  IF Th(th, r1) THEN Reject(t2, Thrown(r1))
        ELSE Pair(t2, [r1 EXCEPT !.pc = "done", !.interval = FALSE])

\* the catch block of attemptSignup, up to its first close
CatchAttempt(t, r, message, th) ==
  LET t1 == [t EXCEPT !.errorMessages = Append(@, Line(message))]
      t2 == updateStep(t1, "submit", "failed", NoLog)
      t3 == pushLog(t2, Line(message))
      r1 == Notify(t3, r)
  IN  IF Th(th, r1) THEN Reject(t3, Thrown(r1))
      ELSE Pair(addDebugLog(t3, Line("Erreur - nettoyage complet du navigateur...")),
                [r1 EXCEPT !.pc = "closing"])

\* addLog(task, log) inside the try block of attemptSignup, then the debug
\* line that follows it and the await the branch stops at (pc): the log is
\* pushed and notified; a throwing callback lands in the catch block
AddLogThen(t, r, log, th, debugLine, pc) ==
  LET t1 == pushLog(t, log)
      r1 == Notify(t1, r)
  IN  IF Th(th, r1) THEN CatchAttempt(t1, Thrown(r1), "callback error", Rest(th))
      ELSE Pair(addDebugLog(t1, Line(debugLine)), [r1 EXCEPT !.pc = pc])

\* a branch of attemptSignup that gives the attempt up: its debug line, then
\* the first close
GiveUp(t, r, debugLine) ==
  Pair(addDebugLog(t, Line(debugLine)), [r EXCEPT !.pc = "closing"])

BeginSaveAlwaysVerified(t, r, verified, vpath) ==
  Pair(addDebugLog(t, Line("Sauvegarde en base de donnees...")),
       [r EXCEPT !.pc = "save", !.verified = TRUE, !.vpath = vpath, !.saves = @ + 1])

\* the head of saveAccountToDatabase(task, cookies, verified)
BeginSave(t, r, verified, vpath) ==
  Pair(addDebugLog(t, Line("Sauvegarde en base de donnees...")),
       [r EXCEPT !.pc = "save", !.verified = verified, !.vpath = vpath, !.saves = @ + 1])

\* the catch block of verifyEmail, up to its saveAccountToDatabase
VerifyCatch(t, r, message, th) ==
  LET t1 == updateStep(t, "email_verify", "failed", NoLog)
      t2 == pushLog(t1, Line("Erreur validation: <message>"))
      r1 == Notify(t2, [r EXCEPT !.outcome = "exception"])
  IN  IF Th(th, r1) THEN CatchAttempt(t2, Thrown(r1), "callback error", Rest(th))
      ELSE BeginSave(t2, r1, FALSE, "catch")

\* an exception raised inside verifyEmail: caught by its try block, or, from
\* its catch block, by attemptSignup
VerifyThrow(t, r, message, th) ==
  IF r.vpath = "try" THEN VerifyCatch(t, r, message, th)
                     ELSE CatchAttempt(t, r, message, th)

\* the head of verifyEmail, up to its first timer
EnterVerify(t, r, via) ==
  LET t1 == updateStep(t, "email_verify", "running", NoLog)
      t2 == addDebugLog(t1, Line("Recuperation de l'email de confirmation..."))
  IN  Pair(t2, [r EXCEPT !.pc = "poll", !.polls = 0, !.vpath = "try", !.via = via])

\* ------------------------------------------------------------------------
\* Actions of one task

Apply(id, p) ==
  /\ tasks' = [tasks EXCEPT ![id] = p.t]
  /\ run' = [run EXCEPT ![id] = p.r]

At(id, pc) == tasks[id] # NoTask /\ run[id].pc = pc

\* what the notifyUpdate calls of one step may do
ThrowSeqs(id) == [1..3 -> NotifyThrows(id)]

\* the environment lets at most faultBudget awaited operations of a task
\* throw (none where the specification's environment is fault-free: f is FALSE)
MayThrow(id, f) == f /\ run[id].faults < faultBudget
OkOrThrow(id, f) == IF MayThrow(id, f) THEN BOOLEAN ELSE {TRUE}
Outcomes(id, f, fine, throwing) == IF MayThrow(id, f) THEN fine \cup throwing ELSE fine

\* a value of debugMode read by a delay of the attempt
ReadTiming(r) == [r EXCEPT !.timing = @ \cup {debugMode}]

\* Math.random() returns u / RandomScale for some u in 0..RandomScale-1
RandomScale == 1000
NumRandoms == 2

\* the outcomes of Math.random() an environment with random draws offers:
\* NumRandoms values spread from 0 to the greatest value below 1
Randoms == { (k * (RandomScale - 1)) \div (NumRandoms - 1) : k \in 0..(NumRandoms - 1) }

\* Math.floor(Math.random() * n)
RandomIndex(u, n) == (u * n) \div RandomScale

\* Math.floor(Math.random() * span) + base, in ms
RandomDelay(u, span, base) == RandomIndex(u, span) + base

NumProfiles == 5
NumViewports == 5

\* getRandomFingerprint(): the indices into profiles and viewports that two
\* calls of Math.random() select
getRandomFingerprint(p, v) == <<RandomIndex(p, NumProfiles), RandomIndex(v, NumViewports)>>

\* attemptSignup from getRandomFingerprint to chromium.launch
BeginAttempt(t, r, fingerprint) ==
  LET t1 == updateStep(t, "load", "running",
                       NLine("Browser: WxH (Tentative n)", r.attempt))
      t2 == addDebugLog(t1, Line("Configuration navigateur avec anti-detection 2025..."))
  IN  Pair(t2, [r EXCEPT !.pc = "launch", !.browser = "null",
                         !.context = "null", !.page = "null", !.timing = {},
                         !.via = "none", !.outcome = "none", !.saves = 0,
                         !.threw = FALSE, !.seen = {},
                         !.solves = 0, !.solved = "none", !.resubmits = 0,
                         !.link = NoLink, !.jar = "none",
                         !.fingerprints = Append(@, fingerprint)])

\* createReplitAccount(email) with the synchronous head of runAutomation and
\* of the first attemptSignup, which run before it returns
StartTask(id, now, fingerprint) ==
  LET t0 == NewTask(id, now)
      t1 == addDebugLogs(t0, << Line("Demarrage de l'automatisation Replit"),
                                Line("Email: <email>"),
                                Line("Initialisation...") >>)
      t2 == [t1 EXCEPT !.status = "running"]
      t3 == addDebugLog(t2, Line("Demarrage de l'automatisation..."))
  IN  BeginAttempt(t3, [NoRun EXCEPT !.interval = TRUE, !.attempt = 1], fingerprint)

\* the id nanoid() yields: one no task has
FreshId(id) ==
  /\ tasks[id] = NoTask
  /\ \A j \in TaskIds : j < id => tasks[j] # NoTask

CreateReplitAccount(id, adv) ==
  /\ FreshId(id)
  /\ clock' = clock + adv
  /\ \E p, v \in randoms : Apply(id, StartTask(id, clock + adv, getRandomFingerprint(p, v)))
  /\ UNCHANGED <<poolVars, svcVars, db, cookieFiles>>

\* chromium.launch settles
Launch(id, ok, th) ==
  /\ At(id, "launch")
  /\ LET t == tasks[id]
         r == run[id]
     IN  IF ok
           THEN Apply(id, Pair(addDebugLog(t, Line("Creation du contexte avec cookies persistants...")),
                               [r EXCEPT !.pc = "goto", !.browser = "open"]))
           ELSE Apply(id, CatchAttempt(t, Thrown(r), "launch failed", th))
  /\ UNCHANGED <<poolVars, svcVars, db, cookieFiles, clock>>

\* loadCookies: true when the task's cookie file exists and was read and
\* added to the context, false when there is none or reading it failed
loadCookies(id) == IF cookieFiles[id] > 0 THEN BOOLEAN ELSE {FALSE}

\* newContext, loadCookies, newPage, addInitScript, goto, the idle behaviour and
\* the first screenshot settle: outcome is how far they got before a throw
Navigate(id, outcome, loaded, th) ==
  /\ At(id, "goto")
  /\ LET t == tasks[id]
         r == run[id]
         jar == IF loaded THEN "stored" ELSE "empty"
     IN  CASE outcome = "context throws" ->
                Apply(id, CatchAttempt(t, Thrown(r), "newContext failed", th))
           [] outcome = "goto throws" ->
                Apply(id, CatchAttempt(
                            updateStep(t, "load", "running", Line("Navigation vers replit.com/signup...")),
                            Thrown([r EXCEPT !.context = "open", !.page = "open", !.jar = jar]),
                            "page.goto: Timeout 60000ms exceeded", th))
           [] outcome = "ok" ->
                LET t1 == updateStep(t, "load", "running", Line("Navigation vers replit.com/signup..."))
                    t2 == addDebugLog(t1, Line("Attente initiale: Nms (simulation comportement humain)"))
                    t3 == [t2 EXCEPT !.screenshots = Append(@, "screenshot1")]
                    t4 == updateStep(t3, "load", "completed", NoLog)
                    t5 == addDebugLog(t4, Line("Page chargee"))
                    t6 == updateStep(t5, "form", "running", NoLog)
                IN  Apply(id, Pair(t6, ReadTiming([r EXCEPT !.pc = "email", !.context = "open",
                                                            !.page = "open", !.jar = jar])))
  /\ UNCHANGED <<poolVars, svcVars, db, cookieFiles, clock>>

\* the optional "Email & Password" button and the email field
FillEmail(id, hasButton, found, th) ==
  /\ At(id, "email")
  /\ LET t  == tasks[id]
         r  == ReadTiming(run[id])
         t1 == IF hasButton THEN addDebugLog(t, Line("Bouton Email & Password clique")) ELSE t
     IN  IF ~found
           THEN Apply(id, CatchAttempt(t1, Thrown(r), "Champ email introuvable", th))
           ELSE Apply(id, Pair(addDebugLog(t1, Line("Email saisi: <email>")),
                               [r EXCEPT !.pc = "password"]))
  /\ UNCHANGED <<poolVars, svcVars, db, cookieFiles, clock>>

\* the password field, up to the wait before the create button is looked up
FillPassword(id, found, th) ==
  /\ At(id, "password")
  /\ LET t == tasks[id]
         r == ReadTiming(run[id])
     IN  IF ~found
           THEN Apply(id, CatchAttempt(t, Thrown(r), "Champ password introuvable", th))
           ELSE LET t1 == updateStep(t, "form", "completed", NoLog)
                    t2 == addDebugLog(t1, Line("Mot de passe saisi: <password>"))
                    t3 == updateStep(t2, "submit", "running", NoLog)
                IN  Apply(id, Pair(t3, [r EXCEPT !.pc = "submit"]))
  /\ UNCHANGED <<poolVars, svcVars, db, cookieFiles, clock>>

\* the message column of otherErrorPatterns, in table order
otherErrorPatterns ==
  << "Trop de tentatives (rate limit)", "Reessayer demande", "Email deja utilise",
     "Email deja existant", "Email invalide", "Mot de passe trop court" >>

\* verifyEmail's maxAttempts
maxAttempts == 10

\* the page after submission, as the classification reads it: whether a
\* captchaPatterns entry matches, which otherErrorPatterns entries match, and
\* whether the URL has left /signup while on replit.com
SoftChoices == {{}, {2, 3}}
Pages == [captcha : BOOLEAN, soft : SoftChoices, off : BOOLEAN]

\* the loop over otherErrorPatterns from entry k on
RECURSIVE SoftLoop(_, _, _, _, _)
SoftLoop(t, r, k, soft, th) ==
  IF k > Len(otherErrorPatterns) THEN [t |-> t, r |-> r, threw |-> FALSE, th |-> th]
  ELSE IF k \in soft THEN
    LET t1 == [t EXCEPT !.errorMessages = Append(@, Line(otherErrorPatterns[k]))]
        t2 == updateStep(t1, "submit", "failed", NoLog)
        t3 == pushLog(t2, Line(otherErrorPatterns[k]))
        r1 == Notify(t3, r)
    IN  IF Th(th, r1) THEN [t |-> t3, r |-> Thrown(r1), threw |-> TRUE, th |-> Rest(th)]
        ELSE SoftLoop(t3, r1, k + 1, soft, Rest(th))
  ELSE SoftLoop(t, r, k + 1, soft, th)

\* the loop over the scraped alert elements
RECURSIVE AlertLoop(_, _, _, _)
AlertLoop(t, r, alerts, th) ==
  IF alerts = <<>> THEN [t |-> t, r |-> r, threw |-> FALSE, th |-> th]
  ELSE
    LET t1 == pushLog(t, Line(Head(alerts)))
        r1 == Notify(t1, r)
    IN  IF Th(th, r1) THEN [t |-> t1, r |-> Thrown(r1), threw |-> TRUE, th |-> Rest(th)]
        ELSE AlertLoop([t1 EXCEPT !.errorMessages = Append(@, Line(Head(alerts)))],
                       r1, Tail(alerts), Rest(th))

\* the redirect test: !url.includes('/signup') && url.includes('replit.com')
LeftSignup(page) == page.off

otherErrorDetectedUnlessRedirected(page) == page.soft # {} /\ ~LeftSignup(page)

\* the flag the loop over otherErrorPatterns leaves
otherErrorDetected(page) == page.soft # {}

\* attemptSignup from the captcha test to its next await
Classify(t, r, page, alerts, th) ==
  IF page.captcha /\ captchaSolver THEN
    \* then the head of solveCaptcha
    AddLogThen(t, [r EXCEPT !.solves = @ + 1],
               Line("reCAPTCHA detecte - tentative de resolution automatique..."),
               th, "Recherche du sitekey reCAPTCHA...", "solve")
  ELSE IF page.captcha /\ ~captchaSolver THEN
    AddLogThen(t, [r EXCEPT !.solved = "no solver"],
               Line("reCAPTCHA detecte - Configurez CAPTCHA_API_KEY pour resolution auto"),
               th, "Fermeture du contexte empoisonne...", "closing")
  ELSE
    LET sl == SoftLoop(t, r, 1, page.soft, th)
    IN
    IF sl.threw THEN CatchAttempt(sl.t, sl.r, "callback error", sl.th)
    ELSE IF otherErrorDetected(page) THEN
      GiveUp(sl.t, sl.r, "Fermeture du contexte empoisonne avant retry...")
    ELSE IF LeftSignup(page) THEN
      LET t1 == updateStep(t, "submit", "completed", NoLog)
          t2 == addDebugLog(t1, Line("Soumission reussie"))
          t3 == updateStep(t2, "redirect", "completed", NoLog)
          t4 == addDebugLog(t3, Line("Redirige vers: <url>"))
      IN  EnterVerify(t4, r, "redirect")
    ELSE
      LET t1 == addDebugLog(t, Line("Toujours sur la page signup - detection probable"))
          al == AlertLoop(t1, r, alerts, th)
      IN  IF al.threw THEN CatchAttempt(al.t, al.r, "callback error", al.th)
          ELSE GiveUp(updateStep(al.t, "submit", "failed", NoLog), al.r,
                      "Nettoyage du contexte empoisonne...")

AlertChoices == {<<>>, <<"alert text">>}

\* the create button, the click, the wait for the server and the page read
Submit(id, found, page, alerts, th) ==
  /\ At(id, "submit")
  /\ LET t == tasks[id]
         r == ReadTiming(run[id])
     IN  IF ~found
           THEN Apply(id, CatchAttempt([t EXCEPT !.screenshots = Append(@, "screenshot")], Thrown(r),
                                       "Bouton Create Account introuvable", th))
           ELSE LET t1 == addDebugLogs(t, << Line("Bouton Create Account clique - Analyse en cours..."),
                                             Line("Attente reponse serveur: Nms") >>)
                    t2 == [t1 EXCEPT !.screenshots = Append(@, "screenshot2")]
                    r1 == [r EXCEPT !.seen = {page},
                                    !.softs = IF ~page.captcha /\ page.soft # {} THEN @ + 1 ELSE @]
                IN  Apply(id, Classify(t2, r1, page, alerts, th))
  /\ UNCHANGED <<poolVars, svcVars, db, cookieFiles, clock>>

CaptchaFailedSolvesAgain(t, r, th) ==
  AddLogThen(t, r, Line("Echec resolution CAPTCHA - retry necessaire"), th,
             "Recherche du sitekey reCAPTCHA...", "solve")

\* the branch taken when no token was obtained or the resubmission did not
\* leave the signup path
CaptchaFailed(t, r, th) ==
  AddLogThen(t, r, Line("Echec resolution CAPTCHA - retry necessaire"), th,
             "Fermeture du contexte empoisonne...", "closing")

\* solveCaptcha settles; with a token: injectCaptchaSolution, the second click
\* and the test of the new URL
SolveCaptcha(id, outcome, resubmit, th) ==
  /\ At(id, "solve")
  /\ LET t == tasks[id]
         r == [run[id] EXCEPT !.seen = {},
                              !.solved = IF outcome = "token" /\ resubmit \in {"leaves", "cookies throws"}
                                           THEN "left signup" ELSE outcome,
                              !.resubmits = IF outcome = "token" /\ resubmit # "no button"
                                              THEN @ + 1 ELSE @]
     IN  CASE outcome = "no sitekey" ->
                /\ Apply(id, CaptchaFailed(addDebugLog(t, Line("Sitekey reCAPTCHA introuvable")), r, th))
                /\ UNCHANGED cookieFiles
           [] outcome = "solver throws" ->
                /\ Apply(id, CaptchaFailed(
                     addDebugLogs(t, << Line("Sitekey trouve: <sitekey>..."),
                                        Line("Resolution du reCAPTCHA avec 2Captcha..."),
                                        Line("Erreur 2Captcha: <message>") >>), r, th))
                /\ UNCHANGED cookieFiles
           [] outcome = "token" ->
                LET t1 == addDebugLogs(t, << Line("Sitekey trouve: <sitekey>..."),
                                             Line("Resolution du reCAPTCHA avec 2Captcha..."),
                                             Line("reCAPTCHA resolu avec succes!"),
                                             Line("Injection du token reCAPTCHA..."),
                                             Line("Token reCAPTCHA injecte") >>)
                IN  CASE resubmit = "no button" ->
                           /\ Apply(id, CaptchaFailed(t1, r, th))
                           /\ UNCHANGED cookieFiles
                      [] resubmit = "stays" ->
                           /\ Apply(id, CaptchaFailed(
                                addDebugLog(t1, Line("Nouvelle soumission avec token 2Captcha...")), r, th))
                           /\ UNCHANGED cookieFiles
                      [] resubmit = "leaves" ->
                           LET t2 == addDebugLog(t1, Line("Nouvelle soumission avec token 2Captcha..."))
                               t3 == updateStep(t2, "submit", "completed", NoLog)
                               t4 == addDebugLog(t3, Line("Succes avec 2Captcha!"))
                               t5 == updateStep(t4, "redirect", "completed", NoLog)
                           IN  /\ Apply(id, EnterVerify(t5, r, "captcha"))
                               /\ cookieFiles' = [cookieFiles EXCEPT ![id] = @ + 1]
                      [] resubmit = "cookies throws" ->
                           LET t2 == addDebugLog(t1, Line("Nouvelle soumission avec token 2Captcha..."))
                               t3 == updateStep(t2, "submit", "completed", NoLog)
                               t4 == addDebugLog(t3, Line("Succes avec 2Captcha!"))
                               t5 == updateStep(t4, "redirect", "completed", NoLog)
                           IN  /\ Apply(id, CatchAttempt(t5, Thrown(r), "context.cookies failed", th))
                               /\ UNCHANGED cookieFiles
  /\ UNCHANGED <<poolVars, svcVars, db, clock>>

\* the loop test of verifyEmail once no link was found: attempts < maxAttempts
PollBudgetLeft(polls) == polls < maxAttempts

\* one round of the polling loop of verifyEmail: getMessages, the scan of the
\* messages, and the 3 s pause when no link was found
Poll(id, outcome, th) ==
  /\ At(id, "poll")
  /\ LET t == tasks[id]
         r == run[id]
     IN  CASE outcome.result = "link" ->
                Apply(id, Pair(addDebugLog(t, Line("Lien trouve, validation en cours...")),
                               [r EXCEPT !.pc = "visit", !.polls = 0, !.link = outcome.link]))
           [] outcome.result = "none" ->
                LET n  == r.polls + 1
                    t1 == addDebugLog(t, NLine("Attente email... (n/maxAttempts)", n))
                    r1 == [r EXCEPT !.polls = n]
                IN  IF PollBudgetLeft(n) THEN Apply(id, Pair(t1, r1))
                    ELSE LET t2 == updateStep(t1, "email_verify", "failed", NoLog)
                             t3 == pushLog(t2, Line("Email de confirmation non recu"))
                             r2 == Notify(t3, [r1 EXCEPT !.polls = 0, !.outcome = "no link"])
                         IN  IF Th(th, r2) THEN Apply(id, VerifyCatch(t3, Thrown(r2), "callback error", Rest(th)))
                             ELSE Apply(id, BeginSave(t3, r2, FALSE, "try"))
           [] outcome.result = "throws" ->
                Apply(id, VerifyCatch(t, Thrown([r EXCEPT !.polls = 0]), "mailbox scan failed", th))
  /\ UNCHANGED <<poolVars, svcVars, db, cookieFiles, clock>>

\* page.goto(verificationLink), the 3 s timer and context.cookies() settle
VisitLink(id, outcome, th) ==
  /\ At(id, "visit")
  /\ LET t  == tasks[id]
         r  == run[id]
         t1 == updateStep(t, "email_verify", "completed", NoLog)
         t2 == addDebugLog(t1, Line("Email valide avec succes!"))
     IN  CASE outcome = "goto throws" ->
                Apply(id, VerifyCatch(t, Thrown(r), "page.goto: Timeout 30000ms exceeded", th))
           [] outcome = "cookies throws" ->
                Apply(id, VerifyCatch(t2, Thrown(r), "context.cookies failed", th))
           [] outcome = "ok" ->
                Apply(id, BeginSave(t2, [r EXCEPT !.outcome = "visited"], TRUE, "try"))
  /\ UNCHANGED <<poolVars, svcVars, db, cookieFiles, clock>>

\* the insert of saveAccountToDatabase settles: stored, or an error that its
\* own catch block logs
SaveAccount(id, stored, th) ==
  /\ At(id, "save")
  /\ LET t == tasks[id]
         r == run[id]
     IN  /\ db' = [db EXCEPT ![id] = Append(@, [verified |-> r.verified, stored |-> stored])]
         /\ IF stored
              THEN Apply(id, Pair(addDebugLog(t, Line("Compte sauvegarde en base de donnees")),
                                  [r EXCEPT !.pc = "vclose"]))
              ELSE LET t1 == pushLog(t, Line("Erreur DB: <message>"))
                       r1 == Notify(t1, r)
                   IN  IF Th(th, r1) THEN Apply(id, VerifyThrow(t1, Thrown(r1), "callback error", Rest(th)))
                       ELSE Apply(id, Pair(t1, [r1 EXCEPT !.pc = "vclose"]))
  /\ UNCHANGED <<poolVars, svcVars, cookieFiles, clock>>

ClosedLeavesOpen(h) == h

\* a handle after close(): closed, or already gone when close() rejects
Closed(h) == IF h = "null" THEN "null" ELSE "closed"

ReturnAfterVerifyRetriesCaptcha(r) == r.via # "captcha"

\* what attemptSignup returns once verifyEmail has returned: `return true` on
\* the redirect branch and on the captcha branch
ReturnAfterVerify(r) == TRUE

\* context.close() and browser.close() at the end of verifyEmail settle
VerifyClose(id, outcome, th) ==
  /\ At(id, "vclose")
  /\ LET t == tasks[id]
         r == [run[id] EXCEPT !.context = Closed(@), !.page = Closed(@)]
     IN  CASE outcome = "context.close throws" ->
                Apply(id, VerifyThrow(t, Thrown(r), "context.close failed", th))
           [] outcome = "browser.close throws" ->
                Apply(id, VerifyThrow(t, Thrown([r EXCEPT !.browser = Closed(@)]),
                                      "browser.close failed", th))
           [] outcome = "ok" ->
                Apply(id, Settled(t, [r EXCEPT !.browser = Closed(@)], ReturnAfterVerify(r), th))
  /\ UNCHANGED <<poolVars, svcVars, db, cookieFiles, clock>>

\* page.close(), context.close(), browser.close() of a failed attempt, each
\* with its rejection swallowed, and `return false`
CloseSession(id, th) ==
  /\ At(id, "closing")
  /\ LET r == [run[id] EXCEPT !.page = Closed(@), !.context = Closed(@), !.browser = Closed(@)]
     IN  Apply(id, Settled(tasks[id], r, FALSE, th))
  /\ UNCHANGED <<poolVars, svcVars, db, cookieFiles, clock>>

RetryResetClearsLogs(t) ==
  [t EXCEPT !.errorMessages = <<>>,
            !.screenshots = <<>>,
            !.logs = <<>>,
            !.debugLogs = SelectSeq(@, Whitelisted)]

RetryResetKeepsScreenshots(t) ==
  [t EXCEPT !.errorMessages = <<>>,
            !.debugLogs = SelectSeq(@, Whitelisted)]

\* the reset runAutomation makes after the backoff wait of attempt k > 1
RetryReset(t) ==
  [t EXCEPT !.errorMessages = <<>>,
            !.screenshots = <<>>,
            !.debugLogs = SelectSeq(@, Whitelisted)]

\* the backoff timer of runAutomation fires: the reset, then the head of
\* attemptSignup up to its own timer
BackoffElapsed(id) ==
  /\ At(id, "backoff")
  /\ LET t  == tasks[id]
         t1 == RetryReset(t)
         t2 == addDebugLog(t1, NLine("Tentative k/MAX_RETRIES avec nouveau contexte propre",
                                     run[id].attempt))
     IN  \E u \in randoms :
           Apply(id, Pair(t2, [run[id] EXCEPT !.pc = "pause", !.waited = @ + RandomDelay(u, 8000, 5000)]))
  /\ UNCHANGED <<poolVars, svcVars, db, cookieFiles, clock>>

\* the timer at the head of attemptSignup (attemptNumber > 1) fires
PauseElapsed(id) ==
  /\ At(id, "pause")
  /\ \E u, p, v \in randoms :
       Apply(id, BeginAttempt(tasks[id], [run[id] EXCEPT !.waited = @ + RandomDelay(u, 5000, 5000)],
                              getRandomFingerprint(p, v)))
  /\ UNCHANGED <<poolVars, svcVars, db, cookieFiles, clock>>

\* the rejection of runAutomation reaches the handler createReplitAccount
\* attached
FatalCatch(id) ==
  /\ At(id, "rejected")
  /\ Apply(id, FatalHandler(tasks[id], run[id]))
  /\ UNCHANGED <<poolVars, svcVars, db, cookieFiles, clock>>

\* ------------------------------------------------------------------------
\* The service's other entry points

\* getTask(taskId): this.tasks.get(taskId), undefined (NoTask) for a key the
\* map does not hold
getTask(taskId) == IF taskId \in TaskIds THEN tasks[taskId] ELSE NoTask

\* Array.from(this.tasks.values()): the tasks in the order they were set
values ==
  LET n == Cardinality({id \in TaskIds : tasks[id] # NoTask})
  IN  [i \in 1..n |-> tasks[i]]

compareOldestFirst(a, b) == a.createdAt - b.createdAt

\* the comparator of getAllTasks
compare(a, b) == b.createdAt - a.createdAt

\* where a stable sort puts x in an array already sorted: behind every
\* element that does not compare greater than x
InsertSorted(sorted, x) ==
  LET before == {i \in 0..Len(sorted) : \A j \in 1..i : compare(sorted[j], x) <= 0}
      k == CHOOSE i \in before : \A j \in before : j <= i
  IN  SubSeq(sorted, 1, k) \o <<x>> \o SubSeq(sorted, k + 1, Len(sorted))

\* Array.prototype.sort (stable) with that comparator
RECURSIVE sort(_)
sort(array) ==
  IF array = <<>> THEN <<>>
  ELSE InsertSorted(sort(SubSeq(array, 1, Len(array) - 1)), array[Len(array)])

getAllTasks == sort(values)

MaxCallbacks == 1

\* onTaskUpdate(taskId, callback); a caller learns the id from
\* createReplitAccount, so the task exists
OnTaskUpdate(id, kind) ==
  /\ tasks[id] # NoTask
  /\ Len(SelectSeq(updateCallbacks[id], LAMBDA k : k # "batch")) < MaxCallbacks
  /\ updateCallbacks' = [updateCallbacks EXCEPT ![id] = Append(@, kind)]
  /\ UNCHANGED <<poolVars, taskVars, debugMode, captchaSolver, debugCalls, faultBudget, randoms, linkVars, clock>>

\* setDebugMode(enabled)
SetDebugMode(enabled) ==
  /\ debugCalls < MaxDebugCalls
  /\ debugMode' = enabled
  /\ debugCalls' = debugCalls + 1
  /\ UNCHANGED <<poolVars, taskVars, updateCallbacks, captchaSolver, faultBudget, randoms, linkVars, clock>>

\* the setInterval callback of runAutomation: notifyUpdate(task) every second
\* until clearInterval (a callback that throws here raises an uncaught
\* exception of the timer, outside the control flow of any task: the ticks
\* delivered are those that return)
IntervalTick(id) ==
  /\ tasks[id] # NoTask
  /\ run[id].interval
  /\ run' = [run EXCEPT ![id] = Notify(tasks[id], @)]
  /\ UNCHANGED <<poolVars, tasks, db, cookieFiles, svcVars, clock>>

\* createMultipleAccounts.  Its workerPool.execute calls are made in index
\* order in one synchronous run; each reaches the loop test of execute and
\* either suspends on the polling timer or takes a permit and runs the
\* supplied function: createReplitAccount, then onTaskUpdate with the callback
\* that resolves on a terminal status.  st is the part of the state they touch.
BatchState ==
  [ active |-> activeWorkers, callers |-> callers, slotTask |-> slotTask,
    tasks |-> tasks, run |-> run, cbs |-> updateCallbacks, fresh |-> TRUE ]

\* (the fingerprint of a task of the batch is drawn with the least outcome of
\* Math.random(): the specifications that run batches offer only that one)
BatchEnter(st, c) ==
  IF PoolFull(st.active) THEN [st EXCEPT !.callers[c] = "polling"]
  ELSE
    LET free == {i \in TaskIds : st.tasks[i] = NoTask}
    IN  IF free = {} THEN [st EXCEPT !.fresh = FALSE]
        ELSE LET id == CHOOSE i \in free : \A j \in free : i <= j
                 u  == CHOOSE x \in randoms : \A y \in randoms : x <= y
                 p  == StartTask(id, clock, getRandomFingerprint(u, u))
             IN  [st EXCEPT !.active = @ + 1,
                            !.callers[c] = "running",
                            !.slotTask[c] = id,
                            !.tasks[id] = p.t,
                            !.run[id] = p.r,
                            !.cbs[id] = Append(@, "batch")]

RECURSIVE BatchEnterAll(_, _, _)
BatchEnterAll(st, c, count) ==
  IF c > count THEN st ELSE BatchEnterAll(BatchEnter(st, c), c + 1, count)

BatchApply(st) ==
  /\ st.fresh
  /\ activeWorkers' = st.active
  /\ callers' = st.callers
  /\ slotTask' = st.slotTask
  /\ tasks' = st.tasks
  /\ run' = st.run
  /\ updateCallbacks' = st.cbs
  /\ UNCHANGED <<queue, db, cookieFiles, debugMode, captchaSolver, debugCalls, faultBudget, randoms, linkVars, clock>>

CreateMultipleAccounts(count) ==
  /\ \A c \in Callers : callers[c] = "idle"
  /\ BatchApply(BatchEnterAll(BatchState, 1, count))

\* the polling timer of a waiting execute call of the batch fires
BatchPollWake(c) ==
  /\ callers[c] = "polling"
  /\ BatchApply(BatchEnter(BatchState, c))

\* the promise of a supplied function resolves once its callback has been
\* shown the task with a terminal status; execute then runs its finally block
BatchSettles(c) ==
  /\ callers[c] = "running"
  /\ slotTask[c] # 0
  /\ run[slotTask[c]].seenTerminal > 0
  /\ PoolLeave
  /\ callers' = [callers EXCEPT ![c] = "returned"]
  /\ UNCHANGED <<slotTask, taskVars, svcVars, clock>>

\* ------------------------------------------------------------------------
\* LinkValidationService and PlaywrightService

NumValidationCalls == 3
NumInboxes == 2
ValidationCalls == 1..NumValidationCalls
InboxIds == 1..NumInboxes

\* a call: where it is suspended, the inboxId it was given (0: validateLink
\* called with a url, by the test route), the browser of validateLink, and
\* what validateLinksInMessage returned
NoValidation == [pc |-> "idle", inboxId |-> 0, browser |-> "null", result |-> "none"]

restVars == <<poolVars, taskVars, updateCallbacks, debugMode, captchaSolver, debugCalls,
              faultBudget, randoms, clock>>

\* PlaywrightService.getActiveBrowserCount()
getActiveBrowserCount == activeValidations

\* storage.getLinkValidation(inboxId): the row, or null when there is none or
\* maybeSingle() reports an error because there are several
getLinkValidation(inboxId) == linkValidations[inboxId] = 1

\* validateLinksInMessage(inboxId) is called: up to the await of
\* storage.getLinkValidation
ValidateLinksInMessage(c, inboxId) ==
  /\ validators[c].pc = "idle"
  /\ validators' = [validators EXCEPT ![c] = [NoValidation EXCEPT !.pc = "get", !.inboxId = inboxId]]
  /\ UNCHANGED <<restVars, activeValidations, linkValidations, opened>>

\* getLinkValidation settles: return the existing validation, or go on to
\* emailService.getMessageDetails
ExistingChecked(c) ==
  /\ validators[c].pc = "get"
  /\ validators' = [validators EXCEPT ![c] =
                      IF getLinkValidation(validators[c].inboxId)
                        THEN [@ EXCEPT !.pc = "returned", !.result = "existing"]
                        ELSE [@ EXCEPT !.pc = "details"]]
  /\ UNCHANGED <<restVars, activeValidations, linkValidations, opened>>

\* getMessageDetails settles: no message (throw, caught, []), no link ([]),
\* or a first link, for which storage.createLinkValidation is called
MessageFetched(c, message) ==
  /\ validators[c].pc = "details"
  /\ validators' = [validators EXCEPT ![c] =
                      IF message = "links" THEN [@ EXCEPT !.pc = "create"]
                      ELSE [@ EXCEPT !.pc = "returned", !.result = "empty"]]
  /\ UNCHANGED <<restVars, activeValidations, linkValidations, opened>>

\* the synchronous head of PlaywrightService.validateLink: the counter is
\* incremented and chromium.launch awaited
validateLink(c, v) ==
  /\ activeValidations' = activeValidations + 1
  /\ validators' = [validators EXCEPT ![c] = [v EXCEPT !.pc = "launch"]]

\* the insert of createLinkValidation settles: a row is added and
\* validateWithPlaywright calls validateLink, or the insert is refused (the
\* table may or may not refuse a second row of an inboxId), the error is
\* caught and [] returned
ValidationCreated(c, inserted) ==
  /\ validators[c].pc = "create"
  /\ inserted \/ linkValidations[validators[c].inboxId] > 0
  /\ IF inserted
       THEN /\ linkValidations' = [linkValidations EXCEPT ![validators[c].inboxId] = @ + 1]
            /\ validateLink(c, validators[c])
       ELSE /\ validators' = [validators EXCEPT ![c].pc = "returned", ![c].result = "empty"]
            /\ UNCHANGED <<linkValidations, activeValidations>>
  /\ UNCHANGED <<restVars, opened>>

\* POST /api/test-playwright calls validateLink(url)
TestPlaywright(c) ==
  /\ validators[c].pc = "idle"
  /\ validateLink(c, NoValidation)
  /\ UNCHANGED <<restVars, linkValidations, opened>>

\* validateLink has returned or thrown: validateWithPlaywright awaits
\* storage.updateLinkValidation, the test route answers
AfterValidateLink(v) ==
  IF v.inboxId = 0 THEN [v EXCEPT !.pc = "returned", !.result = "tested"]
  ELSE [v EXCEPT !.pc = "update"]

\* chromium.launch settles: the browser is open and newContext, newPage,
\* addInitScript and page.goto follow, or launch throws, is caught, and the
\* finally block finds nothing to close and decrements the counter
BrowserLaunched(c, ok) ==
  /\ validators[c].pc = "launch"
  /\ IF ok
       THEN /\ validators' = [validators EXCEPT ![c].pc = "goto", ![c].browser = "open"]
            /\ UNCHANGED activeValidations
       ELSE /\ validators' = [validators EXCEPT ![c] = AfterValidateLink(@)]
            /\ activeValidations' = activeValidations - 1
  /\ UNCHANGED <<restVars, linkValidations, opened>>

\* page.goto(decodedUrl) settles, with the page loaded or with a timeout; the
\* rest of the try block follows up to the finally block's page.close()
LinkOpened(c) ==
  /\ validators[c].pc = "goto"
  /\ validators' = [validators EXCEPT ![c].pc = "close"]
  /\ opened' = IF validators[c].inboxId = 0 THEN opened
               ELSE [opened EXCEPT ![validators[c].inboxId] = @ + 1]
  /\ UNCHANGED <<restVars, activeValidations, linkValidations>>

\* the finally block of validateLink: page.close() and browser.close()
\* settle and the counter is decremented, or page.close() throws and the
\* block is left with the browser open and the counter as it was
BrowserClosed(c, ok) ==
  /\ validators[c].pc = "close"
  /\ IF ok
       THEN /\ validators' = [validators EXCEPT ![c] = AfterValidateLink([@ EXCEPT !.browser = "closed"])]
            /\ activeValidations' = activeValidations - 1
       ELSE /\ validators' = [validators EXCEPT ![c] = AfterValidateLink(@)]
            /\ UNCHANGED activeValidations
  /\ UNCHANGED <<restVars, linkValidations, opened>>

\* storage.updateLinkValidation settles and validateLinksInMessage returns
\* the validation it created
ValidationUpdated(c) ==
  /\ validators[c].pc = "update"
  /\ validators' = [validators EXCEPT ![c].pc = "returned", ![c].result = "created"]
  /\ UNCHANGED <<restVars, activeValidations, linkValidations, opened>>

\* ------------------------------------------------------------------------
\* Specifications

InitFields ==
  /\ activeWorkers = 0
  /\ queue = <<>>
  /\ callers = [c \in Callers |-> "idle"]
  /\ slotTask = [c \in Callers |-> 0]
  /\ tasks = [id \in TaskIds |-> NoTask]
  /\ run = [id \in TaskIds |-> NoRun]
  /\ updateCallbacks = [id \in TaskIds |-> <<>>]
  /\ debugMode = FALSE
  /\ db = [id \in TaskIds |-> <<>>]
  /\ cookieFiles = [id \in TaskIds |-> 0]
  /\ debugCalls = 0
  /\ clock = 0
  /\ activeValidations = 0
  /\ validators = [c \in ValidationCalls |-> NoValidation]
  /\ linkValidations = [i \in InboxIds |-> 0]
  /\ opened = [i \in InboxIds |-> 0]

\* the service where every Math.random() call returns 0
InitService == InitFields /\ randoms = {0}

\* the service where Math.random() returns any of Randoms
InitRandom == InitFields /\ randoms = Randoms /\ captchaSolver = FALSE /\ faultBudget = 0

\* the constructor: captchaSolver is set when CAPTCHA_API_KEY is
Init == InitService /\ captchaSolver \in BOOLEAN /\ faultBudget = MaxFaults

InitPool == InitService /\ captchaSolver = FALSE /\ faultBudget = 0

InitLive == InitService /\ captchaSolver \in BOOLEAN /\ faultBudget = MaxLiveFaults

\* the WorkerPool under callers whose functions return or throw
NextPool ==
  \/ \E c \in Callers : Execute(c)
  \/ \E c \in Callers : PollWake(c)
  \/ \E c \in Callers, ok \in BOOLEAN : TaskSettles(c, ok)

SpecPool == InitPool /\ [][NextPool]_vars

\* the WorkerPool while calls keep arriving: every 1000 ms timer of a waiting
\* call fires and every running function settles; when a caller calls is up
\* to the caller
NextPoolArrivals ==
  \/ NextPool
  \/ \E c \in Callers : Arrives(c)

FairSpecPool ==
  /\ InitPool
  /\ [][NextPoolArrivals]_vars
  /\ \A c \in Callers : WF_vars(PollWake(c))
  /\ \A c \in Callers : WF_vars(\E ok \in BOOLEAN : TaskSettles(c, ok))

\* The steps of a task's activation under every outcome of the operation it
\* awaited: f tells whether operations may throw, pages which pages the
\* provider may answer with.
LaunchStep(id, f) ==
  At(id, "launch") /\ \E th \in ThrowSeqs(id), ok \in OkOrThrow(id, f) : Launch(id, ok, th)
NavigateStep(id, f) ==
  At(id, "goto") /\ \E th \in ThrowSeqs(id), o \in Outcomes(id, f, {"ok"}, {"context throws", "goto throws"}) :
    \E loaded \in loadCookies(id) : Navigate(id, o, loaded, th)
FillEmailStep(id, f) ==
  At(id, "email") /\ \E th \in ThrowSeqs(id), b \in BOOLEAN, found \in OkOrThrow(id, f) : FillEmail(id, b, found, th)
FillPasswordStep(id, f) ==
  At(id, "password") /\ \E th \in ThrowSeqs(id), found \in OkOrThrow(id, f) : FillPassword(id, found, th)
SubmitStep(id, f, pages) ==
  At(id, "submit") /\ \E th \in ThrowSeqs(id), found \in OkOrThrow(id, f), page \in pages, alerts \in AlertChoices :
    Submit(id, found, page, alerts, th)
SolveCaptchaStep(id) ==
  At(id, "solve") /\ \E th \in ThrowSeqs(id), o \in {"no sitekey", "solver throws", "token"},
     re \in Outcomes(id, TRUE, {"no button", "stays", "leaves"}, {"cookies throws"}) :
       SolveCaptcha(id, o, re, th)
PollStep(id, f, mail) ==
  At(id, "poll") /\ \E th \in ThrowSeqs(id), o \in Scans(Outcomes(id, f, mail, {"throws"})) : Poll(id, o, th)
VisitLinkStep(id, f) ==
  At(id, "visit") /\ \E th \in ThrowSeqs(id),
     o \in Outcomes(id, f, {"ok"}, {"goto throws", "cookies throws"}) : VisitLink(id, o, th)
SaveAccountStep(id, f) ==
  At(id, "save") /\ \E th \in ThrowSeqs(id), stored \in (IF f THEN BOOLEAN ELSE {TRUE}) : SaveAccount(id, stored, th)
VerifyCloseStep(id, f) ==
  At(id, "vclose") /\ \E th \in ThrowSeqs(id),
     o \in Outcomes(id, f, {"ok"}, {"context.close throws", "browser.close throws"}) :
    VerifyClose(id, o, th)
CloseSessionStep(id) ==
  At(id, "closing") /\ \E th \in ThrowSeqs(id) : CloseSession(id, th)

\* one task created by createReplitAccount in the default debug mode (off),
\* every outcome of every awaited operation, subscribers as this repository
\* registers them (none throws)
Next ==
  \/ \E id \in SoloIds : CreateReplitAccount(id, 0)
  \/ \E id \in SoloIds : LaunchStep(id, TRUE)
  \/ \E id \in SoloIds : NavigateStep(id, TRUE)
  \/ \E id \in SoloIds : FillEmailStep(id, TRUE)
  \/ \E id \in SoloIds : FillPasswordStep(id, TRUE)
  \/ \E id \in SoloIds : SubmitStep(id, TRUE, Pages)
  \/ \E id \in SoloIds : SolveCaptchaStep(id)
  \/ \E id \in SoloIds : PollStep(id, TRUE, {"link", "none"})
  \/ \E id \in SoloIds : VisitLinkStep(id, TRUE)
  \/ \E id \in SoloIds : SaveAccountStep(id, TRUE)
  \/ \E id \in SoloIds : VerifyCloseStep(id, TRUE)
  \/ \E id \in SoloIds : CloseSessionStep(id)
  \/ \E id \in SoloIds : BackoffElapsed(id)
  \/ \E id \in SoloIds : PauseElapsed(id)
  \/ \E id \in SoloIds : OnTaskUpdate(id, "quiet")
  \/ \E id \in SoloIds : IntervalTick(id)

Spec == Init /\ [][Next]_vars

\* the same with any callback onTaskUpdate accepts: one that may throw
NextFatal ==
  \/ Next
  \/ \E id \in SoloIds : OnTaskUpdate(id, "throwing")
  \/ \E id \in SoloIds : FatalCatch(id)

SpecFatal == Init /\ [][NextFatal]_vars

\* one task without subscribers, in an environment where no awaited
\* operation throws and the verification mail is there at the first poll,
\* with setDebugMode called while the task runs
InitDebug == InitService /\ captchaSolver \in BOOLEAN /\ faultBudget = 0

NextDebug ==
  \/ \E id \in SoloIds : CreateReplitAccount(id, 0)
  \/ \E enabled \in BOOLEAN : SetDebugMode(enabled)
  \/ \E id \in SoloIds : LaunchStep(id, FALSE)
  \/ \E id \in SoloIds : NavigateStep(id, FALSE)
  \/ \E id \in SoloIds : FillEmailStep(id, FALSE)
  \/ \E id \in SoloIds : FillPasswordStep(id, FALSE)
  \/ \E id \in SoloIds : SubmitStep(id, FALSE, Pages)
  \/ \E id \in SoloIds : SolveCaptchaStep(id)
  \/ \E id \in SoloIds : PollStep(id, FALSE, {"link"})
  \/ \E id \in SoloIds : VisitLinkStep(id, FALSE)
  \/ \E id \in SoloIds : SaveAccountStep(id, FALSE)
  \/ \E id \in SoloIds : VerifyCloseStep(id, FALSE)
  \/ \E id \in SoloIds : CloseSessionStep(id)
  \/ \E id \in SoloIds : BackoffElapsed(id)
  \/ \E id \in SoloIds : PauseElapsed(id)

SpecDebug == InitDebug /\ [][NextDebug]_vars

\* several tasks at once, some created by createReplitAccount directly and
\* some by createMultipleAccounts through the WorkerPool, in an environment
\* where every operation succeeds and the provider accepts the signup
FleetPages == {p \in Pages : ~p.captcha /\ p.soft = {} /\ p.off}

NextFleet ==
  \/ \E id \in TaskIds : CreateReplitAccount(id, 0)
  \/ \E count \in Callers : CreateMultipleAccounts(count)
  \/ \E c \in Callers : BatchPollWake(c)
  \/ \E c \in Callers : BatchSettles(c)
  \/ \E id \in TaskIds : LaunchStep(id, FALSE)
  \/ \E id \in TaskIds : NavigateStep(id, FALSE)
  \/ \E id \in TaskIds : FillEmailStep(id, FALSE)
  \/ \E id \in TaskIds : FillPasswordStep(id, FALSE)
  \/ \E id \in TaskIds : SubmitStep(id, FALSE, FleetPages)
  \/ \E id \in TaskIds : PollStep(id, FALSE, {"link"})
  \/ \E id \in TaskIds : VisitLinkStep(id, FALSE)
  \/ \E id \in TaskIds : SaveAccountStep(id, FALSE)
  \/ \E id \in TaskIds : VerifyCloseStep(id, FALSE)

SpecFleet == InitPool /\ [][NextFleet]_vars

\* the same with the 1-second notifier of every running task firing
NextBatch ==
  \/ NextFleet
  \/ \E id \in TaskIds : IntervalTick(id)

SpecBatch == InitPool /\ [][NextBatch]_vars

\* batches only, where the first task may also get a subscriber that throws
\* (onTaskUpdate accepts any callback for any task id)
InitBatchFatal == InitService /\ captchaSolver = FALSE /\ faultBudget = MaxLiveFaults

NextBatchFatal ==
  \/ \E count \in Callers : CreateMultipleAccounts(count)
  \/ \E c \in Callers : BatchPollWake(c)
  \/ \E c \in Callers : BatchSettles(c)
  \/ \E id \in TaskIds : LaunchStep(id, FALSE)
  \/ \E id \in TaskIds : NavigateStep(id, FALSE)
  \/ \E id \in TaskIds : FillEmailStep(id, FALSE)
  \/ \E id \in TaskIds : FillPasswordStep(id, FALSE)
  \/ \E id \in TaskIds : SubmitStep(id, FALSE, FleetPages)
  \/ \E id \in TaskIds : PollStep(id, FALSE, {"link"})
  \/ \E id \in TaskIds : VisitLinkStep(id, FALSE)
  \/ \E id \in TaskIds : SaveAccountStep(id, FALSE)
  \/ \E id \in TaskIds : VerifyCloseStep(id, FALSE)
  \/ \E id \in TaskIds : IntervalTick(id)
  \/ \E id \in SoloIds : OnTaskUpdate(id, "throwing")
  \/ \E id \in TaskIds : FatalCatch(id)

SpecBatchFatal == InitBatchFatal /\ [][NextBatchFatal]_vars

\* tasks created one after another while Date.now() stands still, advances or
\* is set back between two creations, each then run where every operation
\* succeeds and the provider accepts the signup
NumListed == 3
ListIds == 1..NumListed
\* what Date.now() did since the previous creation (the clock is counted from
\* the first one)
ClockSteps(id) == IF id = 1 THEN {0} ELSE {-1, 0, 1}

NextList ==
  \/ \E id \in ListIds : \E adv \in ClockSteps(id) : CreateReplitAccount(id, adv)
  \/ \E id \in ListIds : LaunchStep(id, FALSE)
  \/ \E id \in ListIds : NavigateStep(id, FALSE)
  \/ \E id \in ListIds : FillEmailStep(id, FALSE)
  \/ \E id \in ListIds : FillPasswordStep(id, FALSE)
  \/ \E id \in ListIds : SubmitStep(id, FALSE, FleetPages)
  \/ \E id \in ListIds : PollStep(id, FALSE, {"link"})
  \/ \E id \in ListIds : VisitLinkStep(id, FALSE)
  \/ \E id \in ListIds : SaveAccountStep(id, FALSE)
  \/ \E id \in ListIds : VerifyCloseStep(id, FALSE)

SpecList == InitPool /\ [][NextList]_vars

\* one task under every outcome of its Math.random() calls, where no
\* operation throws, no subscriber is registered and the provider answers the
\* submission with any page
NextRandom ==
  \/ \E id \in SoloIds : CreateReplitAccount(id, 0)
  \/ \E id \in SoloIds : LaunchStep(id, FALSE)
  \/ \E id \in SoloIds : NavigateStep(id, FALSE)
  \/ \E id \in SoloIds : FillEmailStep(id, FALSE)
  \/ \E id \in SoloIds : FillPasswordStep(id, FALSE)
  \/ \E id \in SoloIds : SubmitStep(id, FALSE, Pages)
  \/ \E id \in SoloIds : PollStep(id, FALSE, {"link", "none"})
  \/ \E id \in SoloIds : VisitLinkStep(id, FALSE)
  \/ \E id \in SoloIds : SaveAccountStep(id, FALSE)
  \/ \E id \in SoloIds : VerifyCloseStep(id, FALSE)
  \/ \E id \in SoloIds : CloseSessionStep(id)
  \/ \E id \in SoloIds : BackoffElapsed(id)
  \/ \E id \in SoloIds : PauseElapsed(id)

SpecRandom == InitRandom /\ [][NextRandom]_vars

\* NumValidationCalls calls of validateLinksInMessage and of the test route,
\* in any interleaving, where page.close() does not throw
NextValidation ==
  \/ \E c \in ValidationCalls, i \in InboxIds : ValidateLinksInMessage(c, i)
  \/ \E c \in ValidationCalls : TestPlaywright(c)
  \/ \E c \in ValidationCalls : ExistingChecked(c)
  \/ \E c \in ValidationCalls, m \in {"null", "no links", "links"} : MessageFetched(c, m)
  \/ \E c \in ValidationCalls, ok \in BOOLEAN : ValidationCreated(c, ok)
  \/ \E c \in ValidationCalls, ok \in BOOLEAN : BrowserLaunched(c, ok)
  \/ \E c \in ValidationCalls : LinkOpened(c)
  \/ \E c \in ValidationCalls : BrowserClosed(c, TRUE)
  \/ \E c \in ValidationCalls : ValidationUpdated(c)

SpecValidation == InitPool /\ [][NextValidation]_vars

\* every action that resumes a created task: an awaited browser, mailbox or
\* storage operation settles, one of its timers fires, or the job of a
\* settled promise runs
TaskProgress ==
  \E id \in SoloIds :
    \/ LaunchStep(id, TRUE) \/ NavigateStep(id, TRUE) \/ FillEmailStep(id, TRUE)
    \/ FillPasswordStep(id, TRUE) \/ SubmitStep(id, TRUE, Pages) \/ SolveCaptchaStep(id)
    \/ PollStep(id, TRUE, {"link", "none"}) \/ VisitLinkStep(id, TRUE)
    \/ SaveAccountStep(id, TRUE) \/ VerifyCloseStep(id, TRUE) \/ CloseSessionStep(id)
    \/ BackoffElapsed(id) \/ PauseElapsed(id) \/ FatalCatch(id)

\* a task under any callback, where every awaited operation settles, every
\* timer fires and every promise job runs
FairSpecFatal == InitLive /\ [][NextFatal]_vars /\ WF_vars(TaskProgress)

\* ------------------------------------------------------------------------
\* Properties

Executing == {c \in Callers : callers[c] = "running"}

\* C1: under every interleaving of execute calls, polls and completions, at
\* most maxWorkers supplied functions are executing, and the permit counter
\* never exceeds maxWorkers.
C1_AtMostMaxWorkersExecuting ==
  /\ Cardinality(Executing) <= maxWorkers
  /\ activeWorkers <= maxWorkers

\* a state where the pool is saturated while another caller is polling
C1_Witness ==
  /\ Cardinality(Executing) = maxWorkers
  /\ \E c \in Callers : callers[c] = "polling"

\* C11: every call to execute eventually obtains a permit and runs its
\* function to completion when every running function terminates, also while
\* other calls keep arriving: no call polls for a permit forever.
C11_EveryCallCompletes ==
  \A c \in Callers :
    (callers[c] \in {"polling", "running"}) ~> (callers[c] \in {"returned", "threw"})

Created(id) == tasks[id] # NoTask

\* the tasks whose browser is launched and not yet closed
LiveSessions == {id \in TaskIds : Created(id) /\ run[id].browser = "open"}

\* C2: at every instant the number of tasks with a live browser session is at
\* most MAX_WORKERS, whether createReplitAccount or createMultipleAccounts
\* started them.
C2_LiveSessionsWithinPool == Cardinality(LiveSessions) <= MAX_WORKERS

\* the moves of status the lifecycle allows (pending is left before
\* createReplitAccount returns, so no state shows it)
StatusStep(a, b) ==
  \/ a = b
  \/ a = "absent" /\ b = "running"
  \/ a = "running" /\ b \in {"completed", "failed"}

\* C3: status moves only pending -> running -> completed or failed, and once
\* it is completed or failed no step of runAutomation, of the fatal-error
\* handler or of a notification changes it.
C3_StatusMonotone ==
  [][\A id \in SoloIds : StatusStep(tasks[id].status, tasks'[id].status)]_vars

\* the attempt markers of logs, in order: the attempt number of each
\* 'Browser: WxH (Tentative n)' line
Markers(t) ==
  LET ms == SelectSeq(t.logs, LAMBDA l : l.text = "Browser: WxH (Tentative n)")
  IN  [i \in DOMAIN ms |-> ms[i].n]

Last(q) == q[Len(q)]

C5_EventuallyTerminal ==
  \A id \in SoloIds : Created(id) ~> Terminal(tasks[id])

\* an error escaped runAutomation before any terminal status was set, and the
\* handler of createReplitAccount marked the task failed
C5_Witness ==
  /\ Created(1)
  /\ run[1].fatal
  /\ tasks[1].completedAtWrites = 1
  /\ tasks[1].status = "failed"

\* C6: completedAt is set if and only if status is completed or failed, and it
\* is written once.
C6_CompletedAtOnce ==
  \A id \in SoloIds :
    Created(id) =>
      /\ (tasks[id].completedAt # Undefined) <=> Terminal(tasks[id])
      /\ tasks[id].completedAtWrites <= 1

StepIds(t) == [i \in DOMAIN t.steps |-> t.steps[i].id]
StepLabels(t) == [i \in DOMAIN t.steps |-> t.steps[i].label]

\* C7: from creation on, steps holds the five steps load, form, submit,
\* redirect, email_verify in this order with the labels of creation; only the
\* status of a step changes.
C7_StepsFixed ==
  \A id \in SoloIds :
    Created(id) =>
      /\ StepIds(tasks[id]) = <<"load", "form", "submit", "redirect", "email_verify">>
      /\ StepLabels(tasks[id]) = StepLabels(NewTask(id, 0))
      /\ \A i \in DOMAIN tasks[id].steps :
           tasks[id].steps[i].status \in {"pending", "running", "completed", "failed"}

\* a second attempt under way after the retry reset put the failed submit
\* step back to pending
C7_Witness ==
  /\ Created(1)
  /\ run[1].attempt = 2
  /\ run[1].pc = "email"
  /\ tasks[1].steps[1].status = "completed"
  /\ tasks[1].steps[3].status = "pending"

\* attemptSignup has returned to runAutomation and the next attempt, if any,
\* has not begun
Returned(id) == Created(id) /\ run[id].pc \in {"done", "backoff"} /\ ~run[id].fatal

\* C8: an attempt that took the redirect branch returns the result of email
\* verification: true if the link was found and visited, false if no link
\* arrived within the budget or verification raised an error.
C8_ReturnsVerificationResult ==
  \A id \in SoloIds :
    (Returned(id) /\ run[id].via = "redirect") =>
      Last(run[id].returns) = (run[id].outcome = "visited")

\* C9: over the lifetime of a task saveAccountToDatabase is invoked exactly
\* once, with the verified flag equal to the outcome of email verification.
C9_SavedExactlyOnce ==
  \A id \in SoloIds :
    (Created(id) /\ run[id].pc = "done") =>
      /\ Len(db[id]) = 1
      /\ db[id][1].verified = (run[id].outcome = "visited")

StepStatus(t, stepId) == t.steps[FindStep(t.steps, stepId)].status

HasLog(t, text) == \E i \in DOMAIN t.logs : t.logs[i].text = text

OpenHandles(id) ==
  {h \in {"browser", "context", "page"} : run[id][h] = "open"}

C13_ExceptionFailsAttempt ==
  \A id \in SoloIds :
    /\ run[id].pc # "rejected" /\ ~run[id].fatal
    /\ (Returned(id) /\ run[id].threw) =>
         /\ ~Last(run[id].returns)
         /\ tasks[id].errorMessages # <<>>
         /\ OpenHandles(id) = {}

SoftMessages == {otherErrorPatterns[k] : k \in DOMAIN otherErrorPatterns}

HasError(t, text) == \E i \in DOMAIN t.errorMessages : t.errorMessages[i].text = text

SingleSuccessfulAttempt(id) ==
  /\ Last(run[id].returns)
  /\ run[id].pc = "done" /\ tasks[id].status = "completed"
  /\ run[id].attempt = Len(run[id].returns)
  /\ Len(Markers(tasks[id])) = run[id].attempt

ReachedCatch(id) == run[id].threw /\ tasks[id].errorMessages # <<>>

C18_EveryMutationNotified ==
  \A id \in SoloIds : Created(id) => ~tasks[id].unnotified

\* C19: when an attempt k > 1 starts, after the reset made for it, every step
\* of the task is pending: none is still failed, running or completed from
\* the attempt before
C19_AllStepsPendingOnRetry ==
  \A id \in SoloIds :
    (Created(id) /\ run[id].pc = "pause") =>
      \A i \in DOMAIN tasks[id].steps : tasks[id].steps[i].status = "pending"

\* the debug lines attempt k > 1 has appended itself when it calls
\* chromium.launch
OwnDebugLines == {"Configuration navigateur avec anti-detection 2025..."}

StaleDebugLogs(t) == SelectSeq(t.debugLogs, LAMBDA l : ~Whitelisted(l))

\* the reset of a retry leaves logs, id, email, createdAt and status as they are
ResetFrame ==
  \A id \in SoloIds :
    (Created(id) /\ run[id].pc = "backoff" /\ run'[id].pc = "pause") =>
      /\ tasks'[id].logs = tasks[id].logs
      /\ tasks'[id].id = tasks[id].id
      /\ tasks'[id].email = tasks[id].email
      /\ tasks'[id].createdAt = tasks[id].createdAt
      /\ tasks'[id].status = tasks[id].status

\* C20 as stated: when attempt k > 1 starts its browser session,
\* errorMessages and screenshots are empty and debugLogs holds whitelisted
\* lines only; the reset leaves logs, id, email, createdAt and status unchanged
C20_RetryStartsClean ==
  /\ [](\A id \in SoloIds :
          (Created(id) /\ run[id].pc = "launch" /\ run[id].attempt > 1) =>
            /\ tasks[id].errorMessages = <<>>
            /\ tasks[id].screenshots = <<>>
            /\ StaleDebugLogs(tasks[id]) = <<>>)
  /\ [][ResetFrame]_vars

\* C20 amended: the same, debugLogs holding besides the whitelisted lines
\* only what the attempt itself has appended since the reset
C20_RetryStartsCleanButOwnLines ==
  /\ [](\A id \in SoloIds :
          (Created(id) /\ run[id].pc = "launch" /\ run[id].attempt > 1) =>
            /\ tasks[id].errorMessages = <<>>
            /\ tasks[id].screenshots = <<>>
            /\ Len(StaleDebugLogs(tasks[id])) <= 1
            /\ \A i \in DOMAIN StaleDebugLogs(tasks[id]) :
                 StaleDebugLogs(tasks[id])[i].text \in OwnDebugLines)
  /\ [][ResetFrame]_vars

\* the third attempt is about to launch its browser in debug mode, with
\* debug lines of the earlier attempts kept by the whitelist
C20_Witness ==
  /\ Created(1) /\ run[1].pc = "launch" /\ run[1].attempt = 3 /\ debugMode
  /\ Len(tasks[1].debugLogs) > 4
  /\ Len(tasks[1].logs) > 2

\* C21: the cookies of a task are written to COOKIES_DIR/<id>.json once the
\* signup submission has succeeded, on the redirect branch as on the CAPTCHA
\* branch (so before verifyEmail is entered), and written again once the
\* verification link has been visited
C21_CookiesPersistedTwice ==
  \A id \in SoloIds :
    Created(id) =>
      /\ run[id].via # "none" => cookieFiles[id] >= 1
      /\ run[id].outcome = "visited" => cookieFiles[id] >= 2

\* C22: the steps of a task advance in the order of the list (load, form,
\* submit, redirect, email_verify): a step is running, completed or failed
\* only if every step before it is completed
C22_StepsInOrder ==
  \A id \in SoloIds :
    Created(id) =>
      \A i \in DOMAIN tasks[id].steps :
        tasks[id].steps[i].status # "pending" =>
          \A j \in 1..(i - 1) : tasks[id].steps[j].status = "completed"

\* the fields of a task its subscribers and readers look at
TaskView(t) == <<t.status, t.steps, t.logs, t.debugLogs, t.errorMessages, t.screenshots>>

\* a step that changes the view of an existing task is a step of that task's
\* own flow, and no other task is created or advanced by it
OwnStepsOnly ==
  \A id \in TaskIds :
    (Created(id) /\ TaskView(tasks'[id]) # TaskView(tasks[id])) =>
      /\ run'[id] # run[id]
      /\ \A j \in TaskIds \ {id} : tasks'[j] = tasks[j] /\ run'[j] = run[j]

\* C23: status, steps, logs, debugLogs, errorMessages and screenshots of a
\* task are changed only by steps of that task's own retry loop, signup driver
\* and poller, never by a step made for or creating another task, and no
\* callback registered for one task id is invoked with another task
C23_SingleWriter ==
  /\ [][OwnStepsOnly]_vars
  /\ [](\A id \in TaskIds : run[id].crossed = {})

\* two tasks of a batch, each with its callback: the first has ended and its
\* callback has seen it, the second is still polling the mailbox
C23_Witness ==
  /\ Created(1) /\ Created(2)
  /\ updateCallbacks[1] # <<>> /\ updateCallbacks[2] # <<>>
  /\ Terminal(tasks[1]) /\ run[1].seenTerminal > 0
  /\ run[2].pc = "poll" /\ run[2].seenTerminal = 0

HasDebugLog(t, text) == \E i \in DOMAIN t.debugLogs : t.debugLogs[i].text = text

\* C24: setDebugMode called while an attempt is in progress does not affect
\* that attempt: all its delays read the same value of debugMode, and its
\* debug lines are recorded throughout or not at all (in the first attempt:
\* the line written when the page has loaded is there exactly if the line
\* written before the launch is)
C24_DebugModeFixedPerAttempt ==
  \A id \in SoloIds :
    Created(id) =>
      /\ Cardinality(run[id].timing) <= 1
      /\ (run[id].attempt = 1 /\ run[id].pc \in {"email", "password", "submit"}) =>
           (HasDebugLog(tasks[id], "Page chargee")
              <=> HasDebugLog(tasks[id], "Configuration navigateur avec anti-detection 2025..."))

IsPrefix(a, b) == Len(a) <= Len(b) /\ SubSeq(b, 1, Len(a)) = a

LogsGrow ==
  \A id \in SoloIds : Created(id) => IsPrefix(tasks[id].logs, tasks'[id].logs)

\* C25: the logs of a task only grow: over every step of every attempt, the
\* retry reset and the fatal handler included, the logs before the step are a
\* prefix of the logs after it
C25_LogsAppendOnly == [][LogsGrow]_vars

\* the third attempt is about to launch, the log lines of the first two
\* attempts still in place before its own marker
C25_Witness ==
  /\ Created(1) /\ run[1].pc = "launch" /\ run[1].attempt = 3
  /\ Markers(tasks[1]) = <<1, 2, 3>>
  /\ Len(tasks[1].logs) >= 5

\* the first attempt has ended, its page had redirected off the signup path
\* and a poll had found the verification link
FirstAttemptRedirectedWithLink(id) ==
  /\ Created(id) /\ ~run[id].fatal
  /\ run[id].pc \in {"done", "backoff"}
  /\ Markers(tasks[id]) = <<1>>
  /\ run[id].via = "redirect" /\ run[id].link # NoLink

\* the task is completed after one attempt, its five steps completed, and
\* saveAccountToDatabase was called once, with verified = true
CompletedVerifiedOnce(id) ==
  /\ run[id].pc = "done" /\ run[id].returns = <<TRUE>>
  /\ tasks[id].status = "completed"
  /\ \A i \in DOMAIN tasks[id].steps : tasks[id].steps[i].status = "completed"
  /\ Len(db[id]) = 1 /\ db[id][1].verified

\* C26 as stated: if the page of the first attempt redirects off the signup
\* path and the mailbox yields the verification link within the polling
\* budget, the task ends completed after one attempt, all five steps
\* completed, the account saved exactly once with verified = true
C26_HappyPathCompletes ==
  \A id \in SoloIds : FirstAttemptRedirectedWithLink(id) => CompletedVerifiedOnce(id)

\* C26 restricted to attempts in which no awaited operation throws
C26_HappyPathCompletesUnlessThrown ==
  \A id \in SoloIds :
    (FirstAttemptRedirectedWithLink(id) /\ ~run[id].threw) => CompletedVerifiedOnce(id)

\* in every state of the polling loop fewer than maxAttempts listings have
\* found nothing and no link is held; a link that is held was taken from a
\* message of a provider address and is of the verification URL shape
PollingWithinBudget ==
  \A id \in SoloIds :
    Created(id) =>
      /\ run[id].polls \in 0..(maxAttempts - 1)
      /\ run[id].pc = "poll" => run[id].link = NoLink
      /\ run[id].link # NoLink =>
           /\ includes(run[id].link.fromAddress, "replit")
           /\ Len(run[id].link.link) = 1 /\ VerifyShaped(run[id].link.link[1])

\* a listing either finds nothing and is counted, or finds a link and ends
\* the loop; the loop gives up only at the maxAttempts-th listing
PollStepCounts ==
  \A id \in SoloIds :
    (Created(id) /\ run[id].pc = "poll") =>
      /\ \/ run'[id].pc = "poll" /\ run'[id].polls \in {run[id].polls, run[id].polls + 1}
         \/ run'[id].pc = "visit" /\ run'[id].link # NoLink
         \/ run'[id].pc \notin {"poll", "visit"} /\ run'[id].link = NoLink
      /\ run'[id].outcome = "no link" => run[id].polls = maxAttempts - 1

\* C27: verifyEmail lists the mailbox at most maxAttempts (10) times, takes a
\* link only from a message whose sender matches the provider and whose
\* content holds a link of the verification URL shape, stops polling at the
\* first listing that yields one, and leaves the polling loop in every
\* behaviour, also when no such message ever arrives
C27_PollingBoundedAndTerminates ==
  /\ []PollingWithinBudget
  /\ [][PollStepCounts]_vars
  /\ \A id \in SoloIds : (Created(id) /\ run[id].pc = "poll") ~> (run[id].pc # "poll")

\* the mailbox never held a matching message: maxAttempts listings were made
\* and the account was saved unverified
C27_Witness ==
  /\ Created(1) /\ run[1].outcome = "no link" /\ run[1].link = NoLink
  /\ db[1] # <<>> /\ ~db[1][1].verified

\* an attempt starts with no handle and no cookies of its own, and a context
\* holds stored cookies only if the task's cookie file was written
SessionFresh ==
  \A id \in SoloIds :
    Created(id) =>
      /\ run[id].pc = "launch" =>
           /\ run[id].browser = "null" /\ run[id].context = "null" /\ run[id].page = "null"
           /\ run[id].jar = "none"
      /\ run[id].pc = "goto" => run[id].context = "null" /\ run[id].page = "null"
      /\ run[id].jar = "stored" => cookieFiles[id] > 0

\* the next attempt of a task begins only when no handle of the one before
\* is open
AttemptsSequential ==
  \A id \in SoloIds :
    (Created(id) /\ run[id].pc # "launch" /\ run'[id].pc = "launch") => OpenHandles(id) = {}

\* C28: the attempts of a task are sequential and isolated: the session of
\* attempt k is closed before that of attempt k+1 is opened, and attempt k+1
\* starts from fresh handles, taking over nothing but the cookies stored in
\* the task's cookie file
C28_AttemptsSequentialIsolated ==
  /\ []SessionFresh
  /\ [][AttemptsSequential]_vars

\* a second attempt runs in a new session whose context was given the cookies
\* the first attempt stored
C28_Witness ==
  /\ Created(1) /\ run[1].attempt = 2 /\ Markers(tasks[1]) = <<1, 2>>
  /\ run[1].browser = "open" /\ run[1].context = "open"
  /\ run[1].jar = "stored" /\ cookieFiles[1] = 1

\* the permit counter is the number of supplied functions that are executing,
\* and it is 0 when no call is executing or waiting
PermitsMatchExecuting ==
  /\ getActiveCount = Cardinality(Executing)
  /\ (\A c \in Callers : callers[c] \in {"idle", "returned", "threw"}) => getActiveCount = 0

\* a call takes one permit when its function starts and gives one back when
\* the function returns and when it throws
PermitHeldWhileRunning ==
  \A c \in Callers :
    /\ (callers[c] # "running" /\ callers'[c] = "running") => activeWorkers' = activeWorkers + 1
    /\ (callers[c] = "running" /\ callers'[c] \in {"returned", "threw"}) =>
         activeWorkers' = activeWorkers - 1

\* C29: execute holds exactly one permit for exactly the duration of the
\* function it runs, releases it when the function returns and when it
\* throws; getActiveCount() always equals the number of functions executing
\* and is 0 once all calls have finished
C29_PermitForDuration ==
  /\ []PermitsMatchExecuting
  /\ [][PermitHeldWhileRunning]_vars

\* all four calls have finished, one of them after waiting for a permit, some
\* by returning and some by throwing, and no permit is held
C29_Witness ==
  /\ \A c \in Callers : callers[c] \in {"returned", "threw"}
  /\ \E c \in Callers : callers[c] = "returned"
  /\ \E c \in Callers : callers[c] = "threw"
  /\ getActiveCount = 0

\* ids a caller may ask getTask for: every id a task can have, and two no task has
LookupIds == TaskIds \cup {0, NumFleet + 1}

\* C30: getAllTasks returns every created task exactly once, newest first (of
\* two consecutive entries the earlier one's createdAt is greater than or
\* equal to the later one's); getTask returns the task of a known id and
\* undefined for an unknown id
C30_TasksListedNewestFirst ==
  LET all == getAllTasks
  IN  /\ \A id \in TaskIds :
           Created(id) => Cardinality({i \in DOMAIN all : all[i] = tasks[id]}) = 1
      /\ Len(all) = Cardinality({id \in TaskIds : Created(id)})
      /\ \A i \in 1..(Len(all) - 1) : all[i].createdAt >= all[i + 1].createdAt
      /\ \A id \in LookupIds :
           IF id \in TaskIds /\ Created(id)
             THEN getTask(id) # NoTask /\ getTask(id).id = id
             ELSE getTask(id) = NoTask

\* three tasks whose creation times are not in the order of their creation:
\* the clock was set back before the third; the list puts the second first
C30_Witness ==
  /\ Created(1) /\ Created(2) /\ Created(3)
  /\ tasks[1].createdAt = 0 /\ tasks[2].createdAt = 1 /\ tasks[3].createdAt = 0
  /\ [i \in 1..3 |-> getAllTasks[i].id] = <<2, 1, 3>>
  /\ tasks[2].status = "completed"

\* C31: the fingerprint applied to an attempt is never identical to the one
\* applied to an earlier attempt of the same task: no two attempts use the
\* same (profile, viewport) pair
C31_FingerprintNeverReused ==
  \A id \in SoloIds :
    Created(id) =>
      \A i, j \in DOMAIN run[id].fingerprints :
        i # j => run[id].fingerprints[i] # run[id].fingerprints[j]

\* C32: PlaywrightService never has more than 2 browsers open at once: for any
\* number of concurrent validateLink calls getActiveBrowserCount() <= 2
C32_AtMostTwoBrowsers ==
  /\ getActiveBrowserCount <= 2
  /\ Cardinality({c \in ValidationCalls : validators[c].browser = "open"}) <= 2

\* C33: when the browser of attempt k > 1 is about to be launched the task
\* has waited, since the failed attempt returned, at least 5 and at most 13
\* seconds; before attempt 1 it has not waited
C33_BackoffFiveToThirteenSeconds ==
  \A id \in SoloIds :
    (Created(id) /\ run[id].pc = "launch") =>
      IF run[id].attempt = 1 THEN run[id].waited = 0
      ELSE run[id].waited >= 5000 /\ run[id].waited <= 13000

\* C34: for any inboxId, across any number of validateLinksInMessage calls,
\* concurrent ones included, at most one validation record is created and the
\* link is opened in a browser at most once; a call made when a validation
\* exists returns it without validating again
C34_ValidatedAtMostOnce ==
  /\ \A i \in InboxIds : linkValidations[i] <= 1 /\ opened[i] <= 1
  /\ \A c \in ValidationCalls :
       (validators[c].pc \in {"details", "create"}) =>
         (linkValidations[validators[c].inboxId] = 0
            \/ \E d \in ValidationCalls \ {c} :
                 validators[d].inboxId = validators[c].inboxId /\ validators[d].pc # "get")

\* createMultipleAccounts: the execute calls it has made (indexes 1..count),
\* the ids pushed to taskIds, the counter its callbacks share (incremented
\* at each call of a callback with a terminal status, then handed to
\* statusCallback), and whether Promise.all(promises) has resolved
promises == {c \in Callers : callers[c] # "idle"}
entered == {c \in promises : slotTask[c] # 0}
taskIds == {slotTask[c] : c \in entered}

RECURSIVE SumSeenTerminal(_)
SumSeenTerminal(ids) ==
  IF ids = {} THEN 0
  ELSE LET id == CHOOSE i \in ids : TRUE
       IN  run[id].seenTerminal + SumSeenTerminal(ids \ {id})

completed == SumSeenTerminal(taskIds)
BatchResolved == promises # {} /\ \A c \in promises : callers[c] = "returned"

\* one task per execute call that entered, never more than the pool admits
\* unfinished, statusCallback called for a task when it ends and not again,
\* and the batch resolved only with all its tasks ended and counted
BatchWithinPool ==
  /\ Cardinality(taskIds) = Cardinality(entered)
  /\ Cardinality({id \in taskIds : ~Terminal(tasks[id])}) <= MAX_WORKERS
  /\ \A id \in taskIds : run[id].seenTerminal = (IF Terminal(tasks[id]) THEN 1 ELSE 0)
  /\ BatchResolved =>
       /\ Cardinality(taskIds) = Cardinality(promises)
       /\ \A id \in taskIds : Terminal(tasks[id])
       /\ completed = Cardinality(promises)

\* statusCallback receives the next value of the counter each time
CompletedCountsUp == completed' \in {completed, completed + 1}

\* C35: createMultipleAccounts(count, cb) creates exactly count tasks, keeps at
\* most MAX_WORKERS of them non-terminal at any instant, invokes cb exactly
\* once per task with completed taking the values 1, 2, ..., count in that
\* order, and resolves with exactly count task ids only after every one of
\* those tasks is completed or failed
C35_BatchCreatesCountTasks ==
  /\ []BatchWithinPool
  /\ [][CompletedCountsUp]_vars

\* C36: when a task is completed or failed none of its steps is running
C36_NoStepRunningWhenTerminal ==
  \A id \in SoloIds :
    (Created(id) /\ Terminal(tasks[id])) =>
      \A i \in DOMAIN tasks[id].steps : tasks[id].steps[i].status # "running"

\* C37: whenever the status of a task is completed, each of its five steps
\* is completed, email_verify included
C37_CompletedMeansAllStepsCompleted ==
  \A id \in SoloIds :
    (Created(id) /\ tasks[id].status = "completed") =>
      /\ Len(tasks[id].steps) = 5
      /\ \A i \in DOMAIN tasks[id].steps : tasks[id].steps[i].status = "completed"

\* at most one notification showed the task completed or failed, and the
\* interval of runAutomation is cleared once the task is
TerminalNotifiedOnce ==
  \A id \in SoloIds :
    Created(id) =>
      /\ run[id].seenTerminal <= 1
      /\ Terminal(tasks[id]) => ~run[id].interval

\* the step that ends a task notifies the subscribers it has then, and no
\* step notifies them of a task that has ended
NotifiedWhenItEnds ==
  \A id \in SoloIds :
    /\ (Created(id) /\ ~Terminal(tasks[id]) /\ Terminal(tasks'[id]) /\ updateCallbacks[id] # <<>>) =>
         run'[id].seenTerminal = 1
    /\ (Created(id) /\ Terminal(tasks[id])) =>
         run'[id].seenTerminal = run[id].seenTerminal

\* C38: the subscribers of a task receive exactly one notification in which
\* its status is completed or failed and none after it; the 1-second notifier
\* of runAutomation is stopped on every exit path no later than the terminal
\* transition
C38_OneTerminalNotification ==
  /\ []TerminalNotifiedOnce
  /\ [][NotifiedWhenItEnds]_vars

====
